---- MODULE Spec2Model ----
(***************************************************************************)
(* Model of test-e2e/utils/create-test-suites.js: the configuration read   *)
(* from the environment at module load, the process-wide BrowserStack      *)
(* Local tunnel hooks, the environment generators and the per-environment  *)
(* suites registered by createTestSuites, run by the Mocha runner.         *)
(*                                                                         *)
(* Strings the code inspects are sequences: the auth string is a sequence  *)
(* of characters, a URL is a sequence of lexemes (scheme, ":", "//", host, *)
(* ":", port, path).                                                       *)
(***************************************************************************)
EXTENDS Integers, Sequences, FiniteSets, TLC

VARIABLES
  env,           \* process.env: USE_BROWSERSTACK, BROWSERSTACK_AUTH, E2E_BROWSER_HOST
  platform,      \* process.platform
  config,        \* the module's config object
  pc,            \* where the process is: module load, suite definition, runner position
  suites,        \* the suites registered by createTestSuites, in order
  calls,         \* number of createTestSuites calls made
  cur,           \* index of the suite the runner is in
  currentTest,   \* Mocha's this.currentTest of the running suite
  skipRest,      \* the remaining tests of the running suite are marked pending
  blockStackLocalInstance,  \* the tunnel instance and the daemon behind it
  hook,          \* the hook that ran last: its result, what it met, what it printed
  failedHooks,   \* hooks the runner has reported as failed
  console,       \* what initializeConfig printed
  errDirExists   \* whether <tmpdir>/selenium-errors exists

vars == <<env, platform, config, pc, suites, calls, cur, currentTest, skipRest,
          blockStackLocalInstance, hook, failedHooks, console, errDirExists>>

\* ------------------------------------------------------------------ bounds
MaxAuthLen == 3
MaxSuites == 2
MaxTests == 1
NumCapabilities == 1

\* ------------------------------------------------------- values and strings
\* process.env[X] of a variable that is not set; a destructuring target that
\* got no element; a null field of a parsed URL.
Unset == <<"<unset>">>
Undefined == <<"<undefined>">>
Null == "<null>"

Truthy(s) == s # Unset /\ s # Undefined /\ s # <<>>

AuthChars == {"u", ":", " "}

RECURSIVE SeqsUpTo(_, _)
SeqsUpTo(S, n) ==
  IF n = 0 THEN {<<>>}
  ELSE LET shorter == SeqsUpTo(S, n - 1)
       IN shorter \cup {Append(s, c) : s \in {t \in shorter : Len(t) = n - 1}, c \in S}

RECURSIVE TrimStart(_)
TrimStart(s) == IF s # <<>> /\ Head(s) = " " THEN TrimStart(Tail(s)) ELSE s

RECURSIVE TrimEnd(_)
TrimEnd(s) ==
  IF s # <<>> /\ s[Len(s)] = " " THEN TrimEnd(SubSeq(s, 1, Len(s) - 1)) ELSE s

Trim(s) == TrimStart(TrimEnd(s))

\* s.split(/:(.+)/): the first ':' followed by at least one character splits
\* the string into what precedes it, the captured rest, and an empty tail;
\* without such a ':' the result is the one-element array [s].
SplitAuth(s) ==
  LET hits == {i \in 1..Len(s) : s[i] = ":" /\ i < Len(s)}
  IN IF hits = {} THEN <<s>>
     ELSE LET i == CHOOSE j \in hits : \A k \in hits : j <= k
          IN <<SubSeq(s, 1, i - 1), SubSeq(s, i + 1, Len(s)), <<>>>>

\* [a, b] = array
Destructure(arr, i) == IF i <= Len(arr) THEN arr[i] ELSE Undefined

\* ---------------------------------------------------------------- URLs
PROD_HOST == <<"https", ":", "//", "browser.blockstack.org">>
BS_LOCAL_HOST == "bs-local.com"
LocalHostnames == {"localhost", "127.0.0.1"}
expectedPort == "5757"

HostLexemes == {"localhost", "LOCALHOST", "127.0.0.1", "browser.blockstack.org", "bs-local.com"}
PortLexemes == {"5757", "3000"}
PathLexemes == {"/", "/auth"}
SlashedProtocols == {"http", "https"}

ToLowerCase(w) == IF w = "LOCALHOST" THEN "localhost" ELSE w

\* url.parse(u): a leading word followed by ':' is the protocol; after '//'
\* (or after a protocol that is not a slashed one) comes the host, lowercased,
\* with an optional ':port'; the rest is the path, '/' when a slashed
\* protocol has a host and no path.
UrlParse(u) ==
  LET hasProto == Len(u) >= 2 /\ u[1] \in HostLexemes \cup SlashedProtocols /\ u[2] = ":"
      proto == IF hasProto THEN ToLowerCase(u[1]) ELSE Null
      r1 == IF hasProto THEN SubSeq(u, 3, Len(u)) ELSE u
      slashes == hasProto /\ r1 # <<>> /\ Head(r1) = "//"
      r2 == IF slashes THEN Tail(r1) ELSE r1
      hostPart == slashes \/ (hasProto /\ proto \notin SlashedProtocols)
      hasHost == hostPart /\ r2 # <<>> /\ Head(r2) \in HostLexemes \cup PortLexemes
      r3 == IF hasHost THEN Tail(r2) ELSE r2
      hasPort == hasHost /\ Len(r3) >= 2 /\ r3[1] = ":" /\ r3[2] \in PortLexemes
      r4 == IF hasPort THEN SubSeq(r3, 3, Len(r3)) ELSE r3
  IN [protocol |-> proto,
      slashes |-> slashes,
      hostname |-> IF hasHost THEN ToLowerCase(Head(r2)) ELSE Null,
      port |-> IF hasPort THEN r3[2] ELSE Null,
      pathname |-> IF r4 = <<>> /\ hasHost /\ proto \in SlashedProtocols
                   THEN <<"/">> ELSE r4]

\* Variant: the port is left out of the formatted URL.
UrlFormatDropsPort(p) ==
  (IF p.protocol # Null THEN <<p.protocol, ":">> ELSE <<>>)
  \o (IF p.slashes THEN <<"//">> ELSE <<>>)
  \o (IF p.hostname # Null THEN <<p.hostname>> ELSE <<>>)
  \o p.pathname

\* url.format(parsed) of a parsed URL whose host is undefined: protocol,
\* '//', hostname, ':' port, pathname.
UrlFormat(p) ==
  (IF p.protocol # Null THEN <<p.protocol, ":">> ELSE <<>>)
  \o (IF p.slashes THEN <<"//">> ELSE <<>>)
  \o (IF p.hostname # Null THEN <<p.hostname>> ELSE <<>>)
  \o (IF p.hostname # Null /\ p.port # Null THEN <<":", p.port>> ELSE <<>>)
  \o p.pathname

\* ------------------------------------------------------------ environment
UseValues == {Unset, <<>>, <<"false">>, <<"true">>, <<"1">>}

AuthValues == {Unset} \cup SeqsUpTo(AuthChars, MaxAuthLen)

HostValues ==
  {Unset, <<>>}
  \cup {scheme \o <<h>> \o port \o path :
          scheme \in {<<>>, <<"http", ":", "//">>, <<"https", ":", "//">>},
          h \in HostLexemes \ {"bs-local.com"},
          port \in {<<>>} \cup {<<":", n>> : n \in PortLexemes},
          path \in {<<>>} \cup {<<x>> : x \in PathLexemes}}

Platforms == {"darwin", "win32", "linux"}

\* ------------------------------------------------------------- the config
DefaultConfig ==
  [browserHostUrl |-> <<>>, enabled |-> FALSE, user |-> <<>>, key |-> <<>>,
   localEnabled |-> FALSE]

\* process.env[E2E_BROWSER_HOST] || PROD_HOST
ResolveHost(e) == IF Truthy(e.E2E_BROWSER_HOST) THEN e.E2E_BROWSER_HOST ELSE PROD_HOST

\* process.env[USE_BROWSERSTACK] && process.env[USE_BROWSERSTACK] !== 'false'
CloudRequested(e) == Truthy(e.USE_BROWSERSTACK) /\ e.USE_BROWSERSTACK # <<"false">>

AuthMissing(e) == ~Truthy(e.BROWSERSTACK_AUTH)

\* The values initializeConfig leaves in config when it does not throw.
LoadedConfig(e) ==
  LET host == ResolveHost(e)
      enabled == CloudRequested(e)
      parts == SplitAuth(Trim(e.BROWSERSTACK_AUTH))
      parsedUrl == UrlParse(host)
      localEnabled == enabled /\ parsedUrl.hostname \in LocalHostnames
      rewritten == UrlFormat([parsedUrl EXCEPT !.hostname = BS_LOCAL_HOST])
  IN [browserHostUrl |-> IF localEnabled THEN rewritten ELSE host,
      enabled |-> enabled,
      user |-> IF enabled THEN Destructure(parts, 1) ELSE DefaultConfig.user,
      key |-> IF enabled THEN Destructure(parts, 2) ELSE DefaultConfig.key,
      localEnabled |-> localEnabled]

PortWarning(e) ==
  LET parsedUrl == UrlParse(ResolveHost(e))
  IN CloudRequested(e) /\ parsedUrl.hostname \in LocalHostnames
     /\ parsedUrl.port # expectedPort

\* Variant: only a missing variable is refused, an empty one is accepted.
InitializeConfigThrowsUnsetOnly(e) == CloudRequested(e) /\ e.BROWSERSTACK_AUTH = Unset

InitializeConfigThrows(e) == CloudRequested(e) /\ AuthMissing(e)

\* (function initializeConfig() { ... })(), run once when the module loads.
initializeConfig ==
  /\ pc = "load"
  /\ IF InitializeConfigThrows(env)
     THEN /\ pc' = "crashed"
          /\ config' = [config EXCEPT !.browserHostUrl = ResolveHost(env),
                                      !.enabled = TRUE]
          /\ console' = {"error: BrowserStack auth must be set"}
     ELSE /\ pc' = "define"
          /\ config' = LoadedConfig(env)
          /\ console' = (IF Truthy(env.E2E_BROWSER_HOST)
                          THEN {"log: running against endpoint"}
                          ELSE {"warn: host not set, using production"})
                         \cup (IF PortWarning(env) THEN {"warn: unexpected port"} ELSE {})
  /\ UNCHANGED <<env, platform, suites, calls, cur, currentTest, skipRest, blockStackLocalInstance,
                 hook, failedHooks, errDirExists>>

\* ------------------------------------------------------------ environments
\* require('./browserstack-environments'): the configured cloud capabilities.
browserStackEnvironments ==
  [i \in 1..NumCapabilities |-> [desc |-> <<"capability", ToString(i)>>]]

NoCapability == [desc |-> <<>>, user |-> <<>>, key |-> <<>>, local |-> Null]

\* function* getBrowserstackEnvironments(user, key)
getBrowserstackEnvironments(user, key) ==
  [i \in 1..Len(browserStackEnvironments) |->
     [description |-> browserStackEnvironments[i].desc,
      via |-> "hub",
      browser |-> Null,
      capability |-> [desc |-> browserStackEnvironments[i].desc,
                      user |-> user,
                      key |-> key,
                      local |-> IF config.localEnabled THEN "true" ELSE Null]]]

\* for (let browser of new Set(browsers)): first occurrences, in order.
RECURSIVE Distinct(_)
Distinct(s) ==
  IF s = <<>> THEN <<>>
  ELSE LET init == Distinct(SubSeq(s, 1, Len(s) - 1))
           last == s[Len(s)]
       IN IF \E i \in 1..Len(init) : init[i] = last THEN init ELSE Append(init, last)

\* Variant: the platform tests are exchanged.
LocalBrowsersSwapped(p) ==
  <<"firefox", "chrome">>
  \o (IF p = "win32" THEN <<"safari">> ELSE IF p = "darwin" THEN <<"edge">> ELSE <<>>)

LocalBrowsers(p) ==
  <<"firefox", "chrome">>
  \o (IF p = "darwin" THEN <<"safari">> ELSE IF p = "win32" THEN <<"edge">> ELSE <<>>)

\* function* getLocalSystemBrowserEnvironments()
getLocalSystemBrowserEnvironments ==
  LET browsers == Distinct(LocalBrowsers(platform))
  IN [i \in 1..Len(browsers) |->
        [description |-> <<platform, browsers[i]>>,
         via |-> "local",
         browser |-> browsers[i],
         capability |-> NoCapability]]

testEnvironments ==
  IF config.enabled
  THEN getBrowserstackEnvironments(config.user, config.key)
  ELSE getLocalSystemBrowserEnvironments

\* The suite that describe() registers for one environment: testInputs with an
\* empty driver, the 'create selenium webdriver' step, then the n tests that
\* defineTests(testInputs) registers.
NewSuite(environment, n) ==
  [environment |-> environment,
   envDesc |-> environment.description,
   browserHostUrl |-> config.browserHostUrl,
   driver |-> {},
   defineCalls |-> 1,
   nTests |-> n,
   setup |-> "registered",
   create |-> "idle",
   session |-> "none",
   quitCalls |-> 0]

\* createTestSuites(title, defineTests), called by a test file while Mocha loads it.
createTestSuites(n) ==
  /\ pc = "define"
  /\ calls = 0 \/ Len(suites) + Len(testEnvironments) <= MaxSuites
  /\ suites' = suites \o [i \in 1..Len(testEnvironments) |-> NewSuite(testEnvironments[i], n)]
  /\ calls' = calls + 1
  /\ UNCHANGED <<env, platform, config, pc, cur, currentTest, skipRest, blockStackLocalInstance, hook,
                 failedHooks, console, errDirExists>>

\* ------------------------------------------------------------------ hooks
NoFile == [dir |-> <<>>, prefix |-> "", seconds |-> -1, random |-> <<>>, ext |-> ""]

NoTest == [index |-> 0, state |-> "none"]

\* name, suite and test say which hook ran and after which test; met is the
\* error it ran into, printed what it wrote to the console, requests and
\* file the driver.screenshot calls it made.
HookRecord(name, suite, test, result, met, printed, requests, file) ==
  [name |-> name, suite |-> suite, test |-> test, result |-> result, met |-> met,
   printed |-> printed, requests |-> requests, file |-> file]

NoHook == HookRecord("none", 0, NoTest, "passed", "nothing", {}, 0, NoFile)

NewTunnel == [instances |-> 0, state |-> "none", key |-> <<>>, startCalls |-> 0, stopCalls |-> 0]

\* blockStackLocalInstance && blockStackLocalInstance.isRunning()
IsRunning(t) == t.instances > 0 /\ t.state = "running"

\* ------------------------------------------------- the process-wide tunnel
\* Variant: the tunnel is set up whenever the cloud grid is used.
NeedsTunnelWheneverCloud == config.enabled

\* if (config.browserStack.localEnabled)
NeedsTunnel == config.localEnabled

\* before(async () => { ... }): the root hook, up to the call of start().
GlobalBefore ==
  /\ pc = "define"
  /\ suites # <<>>
  /\ IF NeedsTunnel
     THEN /\ blockStackLocalInstance' =
               [blockStackLocalInstance EXCEPT !.instances = @ + 1, !.state = "starting",
                                               !.key = config.key, !.startCalls = @ + 1]
          /\ hook' = HookRecord("before all", 0, NoTest, "running", "nothing",
                                {"log: setting up BrowserStack Local"}, 0, NoFile)
          /\ pc' = "tunnelStarting"
          /\ cur' = cur
     ELSE /\ blockStackLocalInstance' = blockStackLocalInstance
          /\ hook' = HookRecord("before all", 0, NoTest, "passed", "nothing", {}, 0, NoFile)
          /\ pc' = "suite"
          /\ cur' = 1
  /\ UNCHANGED <<env, platform, config, suites, calls, currentTest, skipRest,
                 failedHooks, console, errDirExists>>

\* The callback given to blockStackLocalInstance.start: reject(error) or resolve().
TunnelStartCallback(error) ==
  /\ pc = "tunnelStarting"
  /\ IF error
     THEN /\ blockStackLocalInstance' = [blockStackLocalInstance EXCEPT !.state = "failed"]
          /\ hook' = [hook EXCEPT !.result = "failed", !.met = "start error",
                                  !.printed = @ \cup {"error: starting BrowserStack Local"}]
          /\ failedHooks' = failedHooks \cup {"before all"}
          /\ pc' = "afterAll"
          /\ cur' = cur
     ELSE /\ blockStackLocalInstance' = [blockStackLocalInstance EXCEPT !.state = "running"]
          /\ hook' = [hook EXCEPT !.result = "passed",
                                  !.printed = @ \cup {"log: BrowserStack Local started"}]
          /\ failedHooks' = failedHooks
          /\ pc' = "suite"
          /\ cur' = 1
  /\ UNCHANGED <<env, platform, config, suites, calls, currentTest, skipRest,
                 console, errDirExists>>

\* after(() => { ... }): the root hook, up to the call of stop().
GlobalAfter ==
  /\ pc = "afterAll"
  /\ IF IsRunning(blockStackLocalInstance)
     THEN /\ blockStackLocalInstance' = [blockStackLocalInstance EXCEPT !.stopCalls = @ + 1]
          /\ hook' = HookRecord("after all", 0, NoTest, "running", "nothing", {}, 0, NoFile)
          /\ pc' = "tunnelStopping"
     ELSE /\ blockStackLocalInstance' = blockStackLocalInstance
          /\ hook' = HookRecord("after all", 0, NoTest, "passed", "nothing", {}, 0, NoFile)
          /\ pc' = "done"
  /\ UNCHANGED <<env, platform, config, suites, calls, cur, currentTest, skipRest,
                 failedHooks, console, errDirExists>>

\* Variant: a stop error is printed and the promise resolved all the same.
TunnelStopCallbackSwallows(error) ==
  /\ pc = "tunnelStopping"
  /\ IF error
     THEN /\ blockStackLocalInstance' = blockStackLocalInstance
          /\ hook' = [hook EXCEPT !.result = "passed", !.met = "stop error",
                                  !.printed = @ \cup {"error: stopping BrowserStack Local"}]
     ELSE /\ blockStackLocalInstance' = [blockStackLocalInstance EXCEPT !.state = "stopped"]
          /\ hook' = [hook EXCEPT !.result = "passed"]
  /\ failedHooks' = failedHooks
  /\ pc' = "done"
  /\ UNCHANGED <<env, platform, config, suites, calls, cur, currentTest, skipRest,
                 console, errDirExists>>

\* The callback given to blockStackLocalInstance.stop: reject(error) or resolve().
TunnelStopCallback(error) ==
  /\ pc = "tunnelStopping"
  /\ IF error
     THEN /\ blockStackLocalInstance' = blockStackLocalInstance
          /\ hook' = [hook EXCEPT !.result = "failed", !.met = "stop error",
                                  !.printed = @ \cup {"error: stopping BrowserStack Local"}]
          /\ failedHooks' = failedHooks \cup {"after all"}
     ELSE /\ blockStackLocalInstance' = [blockStackLocalInstance EXCEPT !.state = "stopped"]
          /\ hook' = [hook EXCEPT !.result = "passed"]
          /\ failedHooks' = failedHooks
  /\ pc' = "done"
  /\ UNCHANGED <<env, platform, config, suites, calls, cur, currentTest, skipRest,
                 console, errDirExists>>

\* ------------------------------------------------------------- the driver
\* The methods an ExtendedWebDriver exposes, as far as this file calls them.
ExtendedWebDriverMethods == {"screenshot", "quit"}

\* helpers.mixin(target, source): target gains the members of source.
Mixin(target, source) == target \cup source

\* Date.now() / 1000 | 0
UnixSeconds(nowMs) == nowMs \div 1000

Clocks == {1999, 2000}

\* helpers.getRandomString(6)
RandomStringLength == 6
RandomStrings == {[i \in 1..RandomStringLength |-> c] : c \in {"a", "b"}}

\* path.resolve(errDir, `screenshot-${Date.now() / 1000 | 0}-${helpers.getRandomString(6)}.png`)
ScreenshotFile(nowMs, rand) ==
  [dir |-> <<"tmpdir", "selenium-errors">>, prefix |-> "screenshot-",
   seconds |-> UnixSeconds(nowMs), random |-> rand, ext |-> ".png"]

\* ---------------------------------------------------------------- a suite
\* The runner enters the next suite and starts its first test, the step
\* 'create selenium webdriver': createDriver() is called and awaits build().
SetupStepBegin ==
  /\ pc = "suite"
  /\ suites' = [suites EXCEPT ![cur].setup = "running", ![cur].create = "building"]
  /\ currentTest' = [index |-> 0, state |-> "running"]
  /\ skipRest' = FALSE
  /\ pc' = "setup"
  /\ UNCHANGED <<env, platform, config, calls, cur, blockStackLocalInstance, hook, failedHooks,
                 console, errDirExists>>

\* The step's promise settles while the runner still waits for it: the test
\* passes or fails, and mocha-steps marks the tests after a failed step pending.
StepSettles(i, state) ==
  IF suites[i].setup = "running"
  THEN /\ pc' = "afterEach"
       /\ currentTest' = [currentTest EXCEPT !.state = state]
       /\ skipRest' = (state = "failed")
  ELSE UNCHANGED <<pc, currentTest, skipRest>>

SetupAfter(i, state) == IF suites[i].setup = "running" THEN state ELSE suites[i].setup

\* createDriver: await new Builder()...build() settles.
BuildSettled(i, ok) ==
  /\ suites[i].create = "building"
  /\ IF ok
     THEN /\ suites' = [suites EXCEPT ![i].create = "timeouts", ![i].session = "open"]
          /\ UNCHANGED <<pc, currentTest, skipRest>>
     ELSE /\ suites' = [suites EXCEPT ![i].create = "rejected",
                                      ![i].setup = SetupAfter(i, "failed")]
          /\ StepSettles(i, "failed")
  /\ UNCHANGED <<env, platform, config, calls, cur, blockStackLocalInstance, hook, failedHooks,
                 console, errDirExists>>

\* createDriver: await driver.manage().setTimeouts(...) settles, then
\* new ExtendedWebDriver(driver) is returned and the step mixes it into
\* testInputs.driver.
SetTimeoutsSettled(i, ok, wrapped) ==
  /\ suites[i].create = "timeouts"
  /\ IF ok /\ wrapped
     THEN /\ suites' = [suites EXCEPT ![i].create = "returned",
                                      ![i].driver = Mixin(@, ExtendedWebDriverMethods),
                                      ![i].setup = SetupAfter(i, "passed")]
          /\ StepSettles(i, "passed")
     ELSE /\ suites' = [suites EXCEPT ![i].create = "rejected",
                                      ![i].setup = SetupAfter(i, "failed")]
          /\ StepSettles(i, "failed")
  /\ UNCHANGED <<env, platform, config, calls, cur, blockStackLocalInstance, hook, failedHooks,
                 console, errDirExists>>

\* .timeout(120000): the runner gives up on the step while createDriver is
\* still pending; the pending call goes on.
StepTimeout ==
  /\ pc = "setup"
  /\ suites[cur].create \in {"building", "timeouts"}
  /\ suites' = [suites EXCEPT ![cur].setup = "failed"]
  /\ StepSettles(cur, "failed")
  /\ UNCHANGED <<env, platform, config, calls, cur, blockStackLocalInstance, hook, failedHooks,
                 console, errDirExists>>

\* A test registered by defineTests runs: it or step, passing or failing.
TestRun(result, isStep) ==
  /\ pc = "test"
  /\ currentTest' = [currentTest EXCEPT !.state = result]
  /\ skipRest' = (isStep /\ result = "failed")
  /\ pc' = "afterEach"
  /\ UNCHANGED <<env, platform, config, suites, calls, cur, blockStackLocalInstance, hook,
                 failedHooks, console, errDirExists>>

\* After a test's afterEach hook: the next test that is not pending, or the
\* suite's after hook.
AfterEachDone ==
  IF ~skipRest /\ currentTest.index < suites[cur].nTests
  THEN /\ pc' = "test"
       /\ currentTest' = [index |-> currentTest.index + 1, state |-> "running"]
  ELSE /\ pc' = "after"
       /\ currentTest' = currentTest

\* Variant: the state of the test is not looked at.
WantsScreenshotAnyState(test, driver) == "screenshot" \in driver

\* this.currentTest.state === 'failed' && testInputs.driver.screenshot
WantsScreenshot(test, driver) == test.state = "failed" /\ "screenshot" \in driver

\* afterEach(function () { ... }), up to the call of driver.screenshot.
AfterEach(outcome, nowMs, rand) ==
  /\ pc = "afterEach"
  /\ IF WantsScreenshot(currentTest, suites[cur].driver)
     THEN CASE outcome = "fs throws" ->
                 /\ hook' = HookRecord("afterEach", cur, currentTest, "passed", "fs throws",
                                       {"warn: error creating screenshot"}, 0, NoFile)
                 /\ errDirExists' = errDirExists
                 /\ AfterEachDone
            [] outcome = "screenshot throws" ->
                 /\ hook' = HookRecord("afterEach", cur, currentTest, "passed", "screenshot throws",
                                       {"warn: error creating screenshot"}, 1,
                                       ScreenshotFile(nowMs, rand))
                 /\ errDirExists' = TRUE
                 /\ AfterEachDone
            [] outcome = "pending" ->
                 /\ hook' = HookRecord("afterEach", cur, currentTest, "running", "nothing", {}, 1,
                                       ScreenshotFile(nowMs, rand))
                 /\ errDirExists' = TRUE
                 /\ pc' = "screenshot"
                 /\ currentTest' = currentTest
     ELSE /\ hook' = HookRecord("afterEach", cur, currentTest, "passed", "nothing", {}, 0, NoFile)
          /\ errDirExists' = errDirExists
          /\ AfterEachDone
  /\ UNCHANGED <<env, platform, config, suites, calls, cur, skipRest, blockStackLocalInstance,
                 failedHooks, console>>

\* Variant: the promise is returned without the .catch.
ScreenshotSettledUncaught(ok) ==
  /\ pc = "screenshot"
  /\ hook' = IF ok
             THEN [hook EXCEPT !.result = "passed",
                               !.printed = @ \cup {"log: screenshot saved"}]
             ELSE [hook EXCEPT !.result = "failed", !.met = "screenshot rejected"]
  /\ AfterEachDone
  /\ UNCHANGED <<env, platform, config, suites, calls, cur, skipRest, blockStackLocalInstance,
                 failedHooks, console, errDirExists>>

\* The promise of driver.screenshot(file) settles: .then logs, .catch warns.
ScreenshotSettled(ok) ==
  /\ pc = "screenshot"
  /\ hook' = IF ok
             THEN [hook EXCEPT !.result = "passed",
                               !.printed = @ \cup {"log: screenshot saved"}]
             ELSE [hook EXCEPT !.result = "passed", !.met = "screenshot rejected",
                               !.printed = @ \cup {"warn: error creating screenshot"}]
  /\ AfterEachDone
  /\ UNCHANGED <<env, platform, config, suites, calls, cur, skipRest, blockStackLocalInstance,
                 failedHooks, console, errDirExists>>

\* After a suite's after hook: the next suite, or the root after hook.
SuiteDone ==
  IF cur < Len(suites)
  THEN pc' = "suite" /\ cur' = cur + 1
  ELSE pc' = "afterAll" /\ cur' = cur

\* after(async () => { ... }) of the suite, up to the call of driver.quit.
SuiteAfter ==
  /\ pc = "after"
  /\ IF "quit" \in suites[cur].driver
     THEN /\ suites' = [suites EXCEPT ![cur].quitCalls = @ + 1]
          /\ hook' = HookRecord("after", cur, currentTest, "running", "nothing", {}, 0, NoFile)
          /\ pc' = "quitting"
          /\ cur' = cur
     ELSE /\ suites' = suites
          /\ hook' = HookRecord("after", cur, currentTest, "passed", "nothing", {}, 0, NoFile)
          /\ SuiteDone
  /\ UNCHANGED <<env, platform, config, calls, currentTest, skipRest, blockStackLocalInstance,
                 failedHooks, console, errDirExists>>

\* await testInputs.driver.quit() returns or throws; the catch warns.
QuitSettled(ok) ==
  /\ pc = "quitting"
  /\ IF ok
     THEN /\ suites' = [suites EXCEPT ![cur].session = "closed"]
          /\ hook' = [hook EXCEPT !.result = "passed"]
     ELSE /\ suites' = suites
          /\ hook' = [hook EXCEPT !.result = "passed", !.met = "quit throws",
                                  !.printed = @ \cup {"warn: error disposing driver"}]
  /\ SuiteDone
  /\ UNCHANGED <<env, platform, config, calls, currentTest, skipRest, blockStackLocalInstance,
                 failedHooks, console, errDirExists>>

\* ------------------------------------------------------- specifications
InitWith(setups) ==
  /\ \E s \in setups : env = s.env /\ platform = s.platform
  /\ config = DefaultConfig
  /\ pc = "load"
  /\ suites = <<>>
  /\ calls = 0
  /\ cur = 0
  /\ currentTest = NoTest
  /\ skipRest = FALSE
  /\ blockStackLocalInstance = NewTunnel
  /\ hook = NoHook
  /\ failedHooks = {}
  /\ console = {}
  /\ errDirExists = FALSE

AllEnvs ==
  [USE_BROWSERSTACK : UseValues, BROWSERSTACK_AUTH : AuthValues,
   E2E_BROWSER_HOST : HostValues]

AllSetups == [env : AllEnvs, platform : Platforms]

LocalhostUrl == <<"http", ":", "//", "localhost", ":", "5757">>

\* The setups whose runs are followed through the whole test run: the local
\* browsers of each platform, the cloud grid against the production host, the
\* cloud grid against a local host (with and without a key in the auth
\* string), and the cloud grid requested without credentials.
RunSetups ==
  {[env |-> [USE_BROWSERSTACK |-> Unset, BROWSERSTACK_AUTH |-> Unset,
             E2E_BROWSER_HOST |-> Unset],
    platform |-> p] : p \in Platforms}
  \cup
  {[env |-> [USE_BROWSERSTACK |-> <<"true">>, BROWSERSTACK_AUTH |-> auth,
             E2E_BROWSER_HOST |-> host],
    platform |-> "linux"] :
     auth \in {<<"u", ":", "u">>, <<"u">>, <<>>}, host \in {<<>>, LocalhostUrl}}

Init == InitWith(RunSetups)

LoadInit == InitWith(AllSetups)

LoadNext ==
  \/ initializeConfig
  \/ \E n \in 0..MaxTests : createTestSuites(n)

Next ==
  \/ initializeConfig
  \/ \E n \in 0..MaxTests : createTestSuites(n)
  \/ GlobalBefore
  \/ \E error \in BOOLEAN : TunnelStartCallback(error)
  \/ SetupStepBegin
  \/ \E i \in 1..Len(suites), ok \in BOOLEAN : BuildSettled(i, ok)
  \/ \E i \in 1..Len(suites), ok \in BOOLEAN, wrapped \in BOOLEAN :
        SetTimeoutsSettled(i, ok, wrapped)
  \/ StepTimeout
  \/ \E result \in {"passed", "failed"}, isStep \in BOOLEAN : TestRun(result, isStep)
  \/ \E outcome \in {"fs throws", "screenshot throws", "pending"},
        nowMs \in Clocks, rand \in RandomStrings : AfterEach(outcome, nowMs, rand)
  \/ \E ok \in BOOLEAN : ScreenshotSettled(ok)
  \/ SuiteAfter
  \/ \E ok \in BOOLEAN : QuitSettled(ok)
  \/ GlobalAfter
  \/ \E error \in BOOLEAN : TunnelStopCallback(error)

\* Module load and suite definition only, over every environment.
LoadSpec == LoadInit /\ [][LoadNext]_vars

\* The whole process: load, definition and the Mocha run.
Spec == Init /\ [][Next]_vars

\* The runner and the callbacks it waits for keep going until nothing is left
\* to do.
FairSpec == Spec /\ WF_vars(Next)

\* ------------------------------------------------------------ properties
Loaded == pc \notin {"load", "crashed"}

SuitePcs == {"suite", "setup", "test", "afterEach", "screenshot", "after", "quitting"}

\* The runner has left suite i: its after hook has completed.
SuiteFinished(i) ==
  \/ pc \in SuitePcs /\ cur > i
  \/ pc \in {"afterAll", "tunnelStopping", "done"} /\ "before all" \notin failedHooks

\* C1: initialization throws whenever USE_BROWSERSTACK is a non-empty value
\* other than 'false' and BROWSERSTACK_AUTH is missing or empty, and then no
\* suite is registered and no tunnel is created; when USE_BROWSERSTACK is
\* unset, empty or 'false', initialization never throws.
C1_FatalWithoutCredentials ==
  LET requested == env.USE_BROWSERSTACK \notin {Unset, <<>>, <<"false">>}
      noAuth == env.BROWSERSTACK_AUTH \in {Unset, <<>>}
  IN pc # "load" =>
       /\ (requested /\ noAuth) =>
            /\ pc = "crashed"
            /\ suites = <<>>
            /\ calls = 0
            /\ blockStackLocalInstance = NewTunnel
            /\ "error: BrowserStack auth must be set" \in console
       /\ ~requested => pc # "crashed"

C1_Witness ==
  /\ pc = "crashed"
  /\ env.USE_BROWSERSTACK = <<"1">>
  /\ env.BROWSERSTACK_AUTH = <<>>

\* C5: after initialization with cloud mode enabled, config.browserStack.user
\* and config.browserStack.key are both defined, non-empty strings.
C5_CredentialsPresentTogether ==
  (Loaded /\ config.enabled) =>
    /\ config.user \notin {Undefined, <<>>}
    /\ config.key \notin {Undefined, <<>>}

\* What C6 says of the final config, given the host URL that was resolved.
HostRewriteHolds(resolved) ==
  LET parsed == UrlParse(resolved)
      isLocal == config.enabled /\ parsed.hostname \in {"localhost", "127.0.0.1"}
      final == UrlParse(config.browserHostUrl)
  IN /\ config.localEnabled = isLocal
     /\ isLocal =>
          /\ final.hostname = "bs-local.com"
          /\ final.protocol = parsed.protocol
          /\ final.port = parsed.port
          /\ final.pathname = parsed.pathname
     /\ ~isLocal => config.browserHostUrl = resolved

\* C6 as stated: localEnabled is true exactly when cloud mode is enabled and
\* the resolved hostname is 'localhost' or '127.0.0.1', the host is then
\* rewritten to bs-local.com with protocol, port and path kept, and otherwise
\* browserHostUrl is the E2E_BROWSER_HOST value, or the production default
\* when the variable is unset.
C6_HostRewriteUnsetOnly ==
  Loaded =>
    HostRewriteHolds(IF env.E2E_BROWSER_HOST = Unset THEN PROD_HOST
                     ELSE env.E2E_BROWSER_HOST)

\* C6 as amended: the same, with the production default taken when
\* E2E_BROWSER_HOST is unset or empty.
C6_HostRewrite ==
  Loaded =>
    HostRewriteHolds(IF env.E2E_BROWSER_HOST \in {Unset, <<>>} THEN PROD_HOST
                     ELSE env.E2E_BROWSER_HOST)

C6_Witness ==
  /\ Loaded
  /\ config.localEnabled
  /\ env.E2E_BROWSER_HOST = <<"http", ":", "//", "LOCALHOST", ":", "3000", "/auth">>
  /\ config.browserHostUrl = <<"http", ":", "//", "bs-local.com", ":", "3000", "/auth">>

\* C10: every createTestSuites call registers one suite per environment and
\* calls defineTests once for each; with cloud mode the environments are the
\* configured capabilities, each with the configured user and key and with
\* 'browserstack.local' = 'true' exactly when localEnabled; without it they
\* are firefox and chrome, plus safari only on darwin and edge only on win32,
\* none twice.
C10_OneSuitePerEnvironment ==
  LET expected ==
        IF config.enabled THEN {}
        ELSE {"firefox", "chrome"}
             \cup (IF platform = "darwin" THEN {"safari"} ELSE {})
             \cup (IF platform = "win32" THEN {"edge"} ELSE {})
      perCall == IF config.enabled THEN NumCapabilities ELSE Cardinality(expected)
      EnvOf(k) == suites[k].environment
  IN Loaded =>
       /\ Len(suites) = calls * perCall
       /\ \A k \in 1..Len(suites) :
            /\ suites[k].defineCalls = 1
            /\ suites[k].envDesc = EnvOf(k).description
            /\ IF config.enabled
               THEN /\ EnvOf(k).via = "hub"
                    /\ EnvOf(k).capability.desc
                         = browserStackEnvironments[((k - 1) % perCall) + 1].desc
                    /\ EnvOf(k).capability.user = config.user
                    /\ EnvOf(k).capability.key = config.key
                    /\ (EnvOf(k).capability.local = "true") <=> config.localEnabled
               ELSE /\ EnvOf(k).via = "local"
                    /\ EnvOf(k).browser \in expected
       /\ ~config.enabled =>
            \A c \in 1..calls :
              LET block == {(c - 1) * perCall + j : j \in 1..perCall}
              IN /\ {EnvOf(k).browser : k \in block} = expected
                 /\ \A k1, k2 \in block : EnvOf(k1).browser = EnvOf(k2).browser => k1 = k2

C10_Witness ==
  /\ calls = 1
  /\ platform = "darwin"
  /\ ~config.enabled
  /\ Len(suites) = 3
  /\ \E k \in 1..Len(suites) : suites[k].environment.browser = "safari"

\* C2 as stated: a tunnel start error and a tunnel stop error are swallowed,
\* the root before / after hook that met it completes successfully and the
\* runner reports no failed hook for it.
C2_TunnelErrorsSwallowed ==
  hook.met \in {"start error", "stop error"} =>
    /\ hook.result = "passed"
    /\ hook.name \notin failedHooks

\* C2 as amended: a tunnel start error and a tunnel stop error are each
\* printed and then passed to reject, so the root before / after hook that met
\* it fails; after a failed start no suite is entered and the root after hook
\* still runs.
C2_TunnelErrorsFailTheHook ==
  /\ hook.met = "start error" =>
       /\ hook.name = "before all"
       /\ hook.result = "failed"
       /\ "error: starting BrowserStack Local" \in hook.printed
       /\ "before all" \in failedHooks
  /\ hook.met = "stop error" =>
       /\ hook.name = "after all"
       /\ hook.result = "failed"
       /\ "error: stopping BrowserStack Local" \in hook.printed
       /\ "after all" \in failedHooks
  /\ "before all" \in failedHooks =>
       /\ pc \in {"afterAll", "done"}
       /\ blockStackLocalInstance.state = "failed"
       /\ \A i \in 1..Len(suites) : suites[i].setup = "registered"
  /\ "after all" \in failedHooks => pc = "done" /\ blockStackLocalInstance.state = "running"

C2_Witness ==
  /\ hook.met = "stop error"
  /\ hook.result = "failed"
  /\ pc = "done"

\* C3: every session that a suite's createDriver established (build()
\* succeeded) has been quit once by the time the suite's after hook has
\* completed, also when setTimeouts or the ExtendedWebDriver wrapper failed
\* afterwards; no suite quits more than once.
C3_EverySessionQuit ==
  \A i \in 1..Len(suites) :
    /\ suites[i].quitCalls <= 1
    /\ (SuiteFinished(i) /\ suites[i].session # "none") => suites[i].quitCalls = 1

\* C4 (safety): with localEnabled one tunnel instance is created by the root
\* before hook and started once, it is running before any suite's setup step
\* starts, stop is called only when every suite's after hook has completed,
\* and never more than once; without localEnabled no tunnel is created,
\* started or stopped.
C4_TunnelSafety ==
  /\ blockStackLocalInstance.instances <= 1
  /\ blockStackLocalInstance.startCalls <= 1
  /\ blockStackLocalInstance.stopCalls <= 1
  /\ (config.localEnabled /\ pc \notin {"load", "crashed", "define"}) =>
       blockStackLocalInstance.instances = 1 /\ blockStackLocalInstance.startCalls = 1
  /\ \A i \in 1..Len(suites) :
       (config.localEnabled /\ suites[i].setup # "registered") =>
         blockStackLocalInstance.state \in {"running", "stopped"}
  /\ (config.localEnabled /\ pc \in SuitePcs) => blockStackLocalInstance.state = "running"
  /\ blockStackLocalInstance.stopCalls > 0 =>
       /\ pc \in {"tunnelStopping", "done"}
       /\ \A i \in 1..Len(suites) :
            /\ SuiteFinished(i)
            /\ suites[i].setup \in {"passed", "failed"}
            /\ suites[i].setup = "passed" => suites[i].quitCalls = 1
  /\ ~config.localEnabled => blockStackLocalInstance = NewTunnel

\* C4 as stated: the safety part, and a tunnel that is running is eventually
\* stopped.
C4_RunningTunnelIsStopped ==
  /\ []C4_TunnelSafety
  /\ (blockStackLocalInstance.state = "running") ~> (blockStackLocalInstance.state = "stopped")

\* C4 as amended: the safety part, and a tunnel that is running eventually has
\* stop called on it; when the run is over it is stopped unless the stop
\* callback reported an error.
C4_RunningTunnelIsAskedToStop ==
  /\ []C4_TunnelSafety
  /\ (blockStackLocalInstance.state = "running") ~> (blockStackLocalInstance.stopCalls = 1)
  /\ [](pc = "done" =>
          \/ blockStackLocalInstance.state \in {"none", "failed", "stopped"}
          \/ blockStackLocalInstance.state = "running" /\ hook.met = "stop error")

C4_Witness ==
  /\ pc = "done"
  /\ blockStackLocalInstance.state = "stopped"
  /\ Len(suites) = 2
  /\ \A i \in 1..Len(suites) : suites[i].quitCalls = 1

\* C7 (state): a suite's afterEach and after hooks never fail; when one met a
\* synchronous exception, a rejected screenshot promise or a failing quit it
\* completed successfully and printed a warning.
C7_SuiteHooksPass ==
  /\ failedHooks \subseteq {"before all", "after all"}
  /\ hook.name \in {"afterEach", "after"} =>
       /\ hook.result \in {"running", "passed"}
       /\ hook.met # "nothing" =>
            /\ hook.result = "passed"
            /\ hook.met \in (IF hook.name = "afterEach"
                             THEN {"fs throws", "screenshot throws", "screenshot rejected"}
                             ELSE {"quit throws"})
            /\ (IF hook.name = "afterEach" THEN "warn: error creating screenshot"
                ELSE "warn: error disposing driver") \in hook.printed

\* C7 (steps): while a suite's afterEach or after hook runs, the outcome of
\* no test changes.
C7_HooksKeepOutcomes ==
  pc \in {"afterEach", "screenshot", "after", "quitting"} =>
    /\ \A i \in 1..Len(suites) : suites'[i].setup = suites[i].setup
    /\ currentTest'.index = currentTest.index => currentTest'.state = currentTest.state
    /\ hook' # hook => hook'.test = currentTest

\* C7: screenshot errors and disposal errors never fail the run, and change
\* no test's outcome.
C7_CleanupErrorsSwallowed == []C7_SuiteHooksPass /\ [][C7_HooksKeepOutcomes]_vars

C7_Witness ==
  /\ hook.name = "afterEach"
  /\ hook.met = "screenshot rejected"
  /\ hook.result = "passed"
  /\ hook.test.state = "failed"

ScreenshotFileOk(f) ==
  /\ f.dir = <<"tmpdir", "selenium-errors">>
  /\ f.prefix = "screenshot-"
  /\ \E c \in Clocks : f.seconds * 1000 <= c /\ c < (f.seconds + 1) * 1000
  /\ Len(f.random) = 6
  /\ f.ext = ".png"

C9_HandleEmptyUntilSetupPassed ==
  /\ \A i \in 1..Len(suites) :
       (suites[i].setup # "passed" /\ ~SuiteFinished(i)) =>
         /\ suites[i].driver = {}
         /\ suites[i].quitCalls = 0
  /\ (hook.name = "afterEach" /\ hook.test.index = 0 /\ hook.test.state = "failed")
       => hook.requests = 0
  /\ (pc = "test") => suites[cur].setup = "passed"

====
